---- MODULE Spec2Model ----
(***************************************************************************)
(* Voxelize (src/main.py): one Streamlit script run of main(), from the    *)
(* page header through load_stl_file, voxelize_mesh, display_mesh_info,    *)
(* create_voxel_visualization, create_slice_visualization and the two      *)
(* export buttons.  The mesh library, the charting library and the widget  *)
(* library are the environment: their results are chosen from small sets.  *)
(***************************************************************************)
EXTENDS Integers, Sequences, FiniteSets, TLC

VARIABLES
    pc,            \* position of the script run inside main()
    uploaded_file, \* st.file_uploader result: TRUE when a file is present
    tmp_file,      \* the temp file of the latest load_stl_file call
    mesh_obj,      \* main's mesh_obj (None or a mesh)
    resolution,    \* main's resolution slider value
    voxel_grid,    \* main's voxel_grid (None or a grid)
    vox_calls,     \* number of voxelize_mesh calls in this run
    messages,      \* st.error / st.warning / st.info lines of this run
    info_panel,    \* what display_mesh_info wrote (col2)
    fig_3d,        \* result of create_voxel_visualization
    slice_widget,  \* the slice slider of main (min, max, default, value)
    fig_slice,     \* result of create_slice_visualization
    download,      \* the download_button produced by an export path
    raised,        \* exception that propagated out of main(), or "none"
    rng,           \* state of the process-wide numpy random generator
    prev_fig_3d    \* render sequences only: the figure rendered before fig_3d

vars == <<pc, uploaded_file, tmp_file, mesh_obj, resolution, voxel_grid,
          vox_calls, messages, info_panel, fig_3d, slice_widget, fig_slice,
          download, raised, rng, prev_fig_3d>>

None == [tag |-> "None"]

----------------------------------------------------------------------------
(* Bounds of the model.                                                    *)

\* largest size of one axis of a voxel matrix
MaxDim == 2
\* largest number of cells of a voxel matrix
MaxCells == 4
\* mantissa width of the modelled binary floating point format
MantBits == 8
\* number of states of the modelled random generator
RngMod == 2

(* Program constants.                                                      *)
ResMin == 10
ResMax == 200
ResDefault == 50
Seed == 42

\* resolutions the slider is set to in the model (all inside ResMin..ResMax)
Resolutions == {ResMin, ResDefault, ResMax}

----------------------------------------------------------------------------
(* Binary floating point, round to nearest even, MantBits bits of          *)
(* mantissa: a finite non-zero value is m * 2^e with                       *)
(* 2^(MantBits-1) <= m < 2^MantBits.  Python's float and numpy's float64   *)
(* are this format with a 53 bit mantissa.                                 *)

Pow2(k) == 2 ^ k

FZero == [kind |-> "zero"]
FNaN == [kind |-> "nan"]
FInf == [kind |-> "inf"]
FNum(m, e) == [kind |-> "num", m |-> m, e |-> e]

Shl(k) == IF k > 0 THEN Pow2(k) ELSE 1

\* the shift k with 2^(MantBits-1) <= (n * 2^k) / d < 2^MantBits
RECURSIVE FScale(_, _, _)
FScale(n, d, k) ==
    IF n * Shl(k) < d * Shl(-k) * Pow2(MantBits - 1) THEN FScale(n, d, k + 1)
    ELSE IF n * Shl(k) >= d * Shl(-k) * Pow2(MantBits) THEN FScale(n, d, k - 1)
    ELSE k

\* the float nearest to the rational n / d (n, d > 0), ties to even
FRound(n, d) ==
    LET k == FScale(n, d, 0)
        N == n * Shl(k)
        D == d * Shl(-k)
        q == N \div D
        r == N % D
        up == (2 * r > D) \/ (2 * r = D /\ q % 2 = 1)
        m == IF up THEN q + 1 ELSE q
    IN  IF m = Pow2(MantBits) THEN FNum(Pow2(MantBits - 1), 1 - k)
        ELSE FNum(m, -k)

\* numerator and denominator of the exact value of a finite non-zero float
FNumer(f) == f.m * Shl(f.e)
FDenom(f) == Shl(-(f.e))

\* int / int as numpy computes it (true division, no exception on zero)
FDivInt(n, d) ==
    IF d = 0 THEN (IF n = 0 THEN FNaN ELSE FInf)
    ELSE IF n = 0 THEN FZero
    ELSE FRound(n, d)

\* float * int
FMulInt(f, n) ==
    IF f.kind = "num" THEN (IF n = 0 THEN FZero ELSE FRound(FNumer(f) * n, FDenom(f)))
    ELSE IF f.kind = "zero" THEN FZero
    ELSE IF n = 0 THEN FNaN ELSE f

\* int / float
FIntDiv(n, f) ==
    IF f.kind = "num" THEN (IF n = 0 THEN FZero ELSE FRound(n * FDenom(f), FNumer(f)))
    ELSE IF f.kind = "zero" THEN (IF n = 0 THEN FNaN ELSE FInf)
    ELSE IF f.kind = "inf" THEN FZero ELSE FNaN

\* the float that holds the integer n exactly (n >= 0 and representable)
FOfInt(n) == FDivInt(n, 1)

----------------------------------------------------------------------------
(* numpy arrays: a 3-D boolean matrix is its shape and one BOOLEAN per     *)
(* index triple (0-based, C order).                                        *)

AxisNo(axis) == CASE axis = "x" -> 1 [] axis = "y" -> 2 [] axis = "z" -> 3

Idx(shape) ==
    (0 .. shape[1] - 1) \X (0 .. shape[2] - 1) \X (0 .. shape[3] - 1)

NpProd(shape) == shape[1] * shape[2] * shape[3]

\* index triple of the t-th cell (t from 0) in C order
Unravel(t, shape) ==
    << t \div (shape[2] * shape[3]), (t \div shape[3]) % shape[2], t % shape[3] >>

RECURSIVE SumCells(_, _)
SumCells(matrix, t) ==
    IF t = 0 THEN 0
    ELSE SumCells(matrix, t - 1)
         + (IF matrix.data[Unravel(t - 1, matrix.shape)] THEN 1 ELSE 0)

\* np.sum(matrix): the number of True cells
NpSum(matrix) == SumCells(matrix, NpProd(matrix.shape))

\* the last cell of the matrix never looked at
NpArgwhere_DropsLast(matrix) ==
    LET cells == [t \in 1 .. NpProd(matrix.shape) - 1 |-> Unravel(t - 1, matrix.shape)]
    IN  SelectSeq(cells, LAMBDA c : matrix.data[c])

\* np.argwhere(matrix): the index triples of the True cells, in C order
NpArgwhere(matrix) ==
    LET cells == [t \in 1 .. NpProd(matrix.shape) |-> Unravel(t - 1, matrix.shape)]
    IN  SelectSeq(cells, LAMBDA c : matrix.data[c])

\* matrix.astype(np.uint8): a new array, True -> 1, False -> 0
AsUint8(matrix) ==
    [shape |-> matrix.shape, dtype |-> "uint8",
     data |-> [c \in Idx(matrix.shape) |-> IF matrix.data[c] THEN 1 ELSE 0]]

Shapes ==
    {s \in (0 .. MaxDim) \X (0 .. MaxDim) \X (0 .. MaxDim) : NpProd(s) <= MaxCells}

\* the matrices the voxelizer of the mesh library may hand back
Matrices ==
    UNION {{[shape |-> s, data |-> d] : d \in [Idx(s) -> BOOLEAN]} : s \in Shapes}

----------------------------------------------------------------------------
(* Meshes as trimesh.load_mesh returns them: only the bounds are read by   *)
(* the code under study.  bounds is None for a mesh without faces.         *)

Mesh(lo, hi) == [tag |-> "Mesh", bounds |-> [tag |-> "Bounds", lo |-> lo, hi |-> hi]]
EmptyMesh == [tag |-> "Mesh", bounds |-> None]

LoadedMeshes ==
    { Mesh(<<0, 0, 0>>, <<10, 10, 10>>),
      Mesh(<<-1, 0, 1>>, <<6, 2, 3>>),
      EmptyMesh }

Max2(a, b) == IF a >= b THEN a ELSE b

\* bounds[1] - bounds[0]
Extents(bounds) == [i \in 1 .. 3 |-> bounds.hi[i] - bounds.lo[i]]

\* the lower corner forgotten: max(bounds[1])
MaxDimension_UpperOnly(bounds) ==
    Max2(bounds.hi[1], Max2(bounds.hi[2], bounds.hi[3]))

\* max(bounds[1] - bounds[0])
MaxDimension(bounds) ==
    LET d == Extents(bounds) IN Max2(d[1], Max2(d[2], d[3]))

----------------------------------------------------------------------------
(* The process-wide numpy generator, as a deterministic state machine on   *)
(* RngMod states: seeding fixes the state, every draw returns the next     *)
(* state.                                                                  *)

NpRandomSeed(seed) == seed % RngMod

NpRandomNext(state) == (state + 1) % RngMod

\* the seed call left out: the generator keeps its state
Reseeded_Missing(state) == state

\* np.random.seed(42): the state after the call, whatever it was before
Reseeded(state) == NpRandomSeed(Seed)

RECURSIVE NpRandomRand(_, _)
\* np.random.rand(n) from `state`: the n values drawn and the state left
NpRandomRand(state, n) ==
    IF n = 0 THEN [values |-> <<>>, state |-> state]
    ELSE LET r == NpRandomRand(state, n - 1)
             v == NpRandomNext(r.state)
         IN  [values |-> Append(r.values, v), state |-> v]

----------------------------------------------------------------------------
(* User-facing messages.                                                   *)

StError(text) == [level |-> "error", text |-> text]
StWarning(text) == [level |-> "warning", text |-> text]
StInfo(text) == [level |-> "info", text |-> text]

----------------------------------------------------------------------------
(* load_stl_file: what the temp file, the result and the messages are      *)
(* after the call, for each way the body can run.                          *)
(*   "create_fails": NamedTemporaryFile or getvalue() raises first         *)
(*   "write_fails" : tmp_file.write raises, the with block closes the file *)
(*   "load_fails"  : trimesh.load_mesh raises                              *)
(*   "ok"          : the mesh loads and os.unlink removes the file         *)

LoadOutcomes == {"create_fails", "write_fails", "load_fails", "ok"}

LoadStlFileResult(outcome, mesh) ==
    CASE outcome = "create_fails" ->
            [tmp |-> "none", mesh |-> None,
             msgs |-> <<StError("Error loading STL file")>>]
      [] outcome \in {"write_fails", "load_fails"} ->
            [tmp |-> "exists", mesh |-> None,
             msgs |-> <<StError("Error loading STL file")>>]
      [] outcome = "ok" ->
            [tmp |-> "unlinked", mesh |-> mesh, msgs |-> <<>>]

----------------------------------------------------------------------------
(* voxelize_mesh.  `lib` is what mesh_obj.voxelized(pitch=pitch) does:     *)
(* LibRaises, or the matrix of the grid it returns.                        *)

LibRaises == [tag |-> "raises"]

VoxelizeMeshResult(mesh, res, lib) ==
    IF mesh = None \/ mesh.bounds = None \/ lib = LibRaises
    THEN [grid |-> None, msgs |-> <<StError("Error voxelizing mesh")>>]
    ELSE LET max_dimension == MaxDimension(mesh.bounds)
             pitch == FDivInt(max_dimension, res)
         IN  [grid |-> [tag |-> "VoxelGrid", matrix |-> lib,
                        pitch |-> pitch, _pitch |-> pitch],
              msgs |-> <<>>]

----------------------------------------------------------------------------
(* display_mesh_info, the voxel column.                                    *)

DisplayMeshInfoResult(grid) ==
    LET voxel_count == NpSum(grid.matrix)
        total_voxels == NpProd(grid.matrix.shape)
    IN  [tag |-> "Info",
         grid_size |-> grid.matrix.shape,
         filled |-> voxel_count,
         total |-> total_voxels,
         fill_ratio |-> FDivInt(voxel_count, total_voxels),
         voxel_pitch |-> grid._pitch]

----------------------------------------------------------------------------
(* create_voxel_visualization.                                             *)

ColorByOptions ==
    {"Z-coordinate", "Y-coordinate", "X-coordinate",
     "Distance from Center", "Radial (XY)", "Random"}

\* the display settings tried: colormap, opacity in tenths, marker size
Styles ==
    { [colormap |-> "Viridis", opacity |-> 8, marker_size |-> 4],
      [colormap |-> "Thermal", opacity |-> 1, marker_size |-> 10] }

Colormaps == {st.colormap : st \in Styles}

Column(pos, i) == [t \in 1 .. Len(pos) |-> pos[t][i]]

RECURSIVE SeqSum(_)
SeqSum(q) == IF q = <<>> THEN 0 ELSE q[1] + SeqSum(Tail(q))

\* (n*v[t] - sum(v))^2, the square of n * (v[t] - mean(v))
SqDev(v, t) == LET d == Len(v) * v[t] - SeqSum(v) IN d * d

\* sqrt(num / den), kept as its radicand
Sqrt(num, den) == [kind |-> "sqrt", num |-> num, den |-> den]

ColorValues(color_by, x, y, z, state) ==
    LET n == Len(x) IN
    CASE color_by = "Z-coordinate" ->
            [values |-> z, title |-> "Z", state |-> state]
      [] color_by = "Y-coordinate" ->
            [values |-> y, title |-> "Y", state |-> state]
      [] color_by = "X-coordinate" ->
            [values |-> x, title |-> "X", state |-> state]
      [] color_by = "Distance from Center" ->
            [values |-> [t \in 1 .. n |->
                            Sqrt(SqDev(x, t) + SqDev(y, t) + SqDev(z, t), n * n)],
             title |-> "Distance", state |-> state]
      [] color_by = "Radial (XY)" ->
            [values |-> [t \in 1 .. n |-> Sqrt(SqDev(x, t) + SqDev(y, t), n * n)],
             title |-> "Radial XY", state |-> state]
      [] OTHER ->
            LET r == NpRandomRand(Reseeded(state), n)
            IN  [values |-> r.values, title |-> "Random", state |-> r.state]

CreateVoxelVisualization(grid, colormap, color_by, marker_size, opacity, state) ==
    LET filled_positions == NpArgwhere(grid.matrix) IN
    IF Len(filled_positions) = 0
    THEN [fig |-> None, msgs |-> <<StWarning("No voxels found in the mesh")>>,
          state |-> state]
    ELSE LET x == Column(filled_positions, 1)
             y == Column(filled_positions, 2)
             z == Column(filled_positions, 3)
             c == ColorValues(color_by, x, y, z, state)
         IN  [fig |-> [tag |-> "Figure", x |-> x, y |-> y, z |-> z,
                       color |-> c.values, color_title |-> c.title,
                       color_by |-> color_by, colorscale |-> colormap,
                       size |-> marker_size, opacity |-> opacity],
              msgs |-> <<>>, state |-> c.state]

----------------------------------------------------------------------------
(* create_slice_visualization.  slice_index is None or Index(v).             *)

Index(v) == [tag |-> "int", v |-> v]

\* volume.shape[axis] // 2, the index used when slice_index is None
DefaultSliceIndex(volume, slice_axis) == volume.shape[AxisNo(slice_axis)] \div 2

\* numpy's reading of one integer index on an axis of n cells
IndexInRange(i, n) == -n <= i /\ i < n
WrapIndex(i, n) == IF i < 0 THEN i + n ELSE i

\* the requested index ignored: volume[0, :, :]
SliceX_First(volume, i) ==
    [shape |-> <<volume.shape[2], volume.shape[3]>>,
     data |-> [c \in (0 .. volume.shape[2] - 1) \X (0 .. volume.shape[3] - 1) |->
                  volume.data[<<0, c[1], c[2]>>]]]

\* volume[i, :, :], volume[:, i, :] and volume[:, :, i]
SliceX(volume, i) ==
    [shape |-> <<volume.shape[2], volume.shape[3]>>,
     data |-> [c \in (0 .. volume.shape[2] - 1) \X (0 .. volume.shape[3] - 1) |->
                  volume.data[<<i, c[1], c[2]>>]]]
SliceY(volume, i) ==
    [shape |-> <<volume.shape[1], volume.shape[3]>>,
     data |-> [c \in (0 .. volume.shape[1] - 1) \X (0 .. volume.shape[3] - 1) |->
                  volume.data[<<c[1], i, c[2]>>]]]
SliceZ(volume, i) ==
    [shape |-> <<volume.shape[1], volume.shape[2]>>,
     data |-> [c \in (0 .. volume.shape[1] - 1) \X (0 .. volume.shape[2] - 1) |->
                  volume.data[<<c[1], c[2], i>>]]]

SliceData(volume, slice_axis, i) ==
    IF slice_axis = "x" THEN SliceX(volume, i)
    ELSE IF slice_axis = "y" THEN SliceY(volume, i)
    ELSE SliceZ(volume, i)

CreateSliceVisualization(grid, slice_axis, slice_index, colormap) ==
    LET volume == grid.matrix
        n == volume.shape[AxisNo(slice_axis)]
        i == IF slice_index = None THEN DefaultSliceIndex(volume, slice_axis)
             ELSE slice_index.v
    IN  IF ~IndexInRange(i, n) THEN [tag |-> "IndexError"]
        ELSE [tag |-> "Figure", axis |-> slice_axis, index |-> i,
              data |-> SliceData(volume, slice_axis, WrapIndex(i, n)),
              colorscale |-> colormap]

----------------------------------------------------------------------------
(* The slice slider of main: st.slider(label, 0, max_slice, max_slice // 2) *)

\* the slider's upper end one too far
MaxSlice_OffByOne(grid, slice_axis) == grid.matrix.shape[AxisNo(slice_axis)]

MaxSlice(grid, slice_axis) == grid.matrix.shape[AxisNo(slice_axis)] - 1

SliderDefault(max_slice) == max_slice \div 2

\* st.slider rejects a default outside min_value..max_value
SliderAccepts(min_value, max_value, value) ==
    min_value <= value /\ value <= max_value

----------------------------------------------------------------------------
(* The export paths.                                                       *)

Digit(d) == CASE d = 0 -> "0" [] d = 1 -> "1" [] d = 2 -> "2" [] d = 3 -> "3"
              [] d = 4 -> "4" [] d = 5 -> "5" [] d = 6 -> "6" [] d = 7 -> "7"
              [] d = 8 -> "8" [] d = 9 -> "9"

RECURSIVE DecStr(_)
\* the decimal text of n >= 0
DecStr(n) == IF n < 10 THEN Digit(n) ELSE DecStr(n \div 10) \o Digit(n % 10)

CsvLine(row) == DecStr(row[1]) \o "," \o DecStr(row[2]) \o "," \o DecStr(row[3])

\* pd.DataFrame(rows, columns=['X','Y','Z']).to_csv(index=False), line by line
ToCsv(rows) == <<"X,Y,Z">> \o [t \in 1 .. Len(rows) |-> CsvLine(rows[t])]

ExportNpy(grid) ==
    [tag |-> "Download", kind |-> "npy", suffix |-> "_voxels.npy",
     data |-> AsUint8(grid.matrix)]

ExportCsv(grid) ==
    [tag |-> "Download", kind |-> "csv", suffix |-> "_coordinates.csv",
     data |-> ToCsv(NpArgwhere(grid.matrix))]

----------------------------------------------------------------------------
(* One script run of main().                                               *)

Init ==
    /\ pc = "start"
    /\ uploaded_file = FALSE
    /\ tmp_file = "none"
    /\ mesh_obj = None
    /\ resolution = 0
    /\ voxel_grid = None
    /\ vox_calls = 0
    /\ messages = <<>>
    /\ info_panel = None
    /\ fig_3d = None
    /\ slice_widget = None
    /\ fig_slice = None
    /\ download = None
    /\ raised = "none"
    /\ rng \in 0 .. RngMod - 1
    /\ prev_fig_3d = None

\* the guard left out: the voxelizer runs whatever the load returned
MeshLoaded_Ignored == TRUE

\* `if mesh_obj is not None` and `if voxel_grid is not None`
MeshLoaded == mesh_obj # None
GridComputed == voxel_grid # None

\* page config, title, branding image, uploader; the else branch of
\* `if uploaded_file is not None`
PageHeader ==
    /\ pc = "start"
    /\ \E image_found \in BOOLEAN, present \in BOOLEAN :
          /\ uploaded_file' = present
          /\ messages' =
                (IF image_found THEN <<>>
                 ELSE <<StWarning("Image 'image.png' not found in the current directory")>>)
                \o (IF present THEN <<>>
                    ELSE <<StInfo("Upload an STL file to get started!")>>)
          /\ pc' = IF present THEN "load" ELSE "done"
    /\ UNCHANGED <<tmp_file, mesh_obj, resolution, voxel_grid, vox_calls,
                   info_panel, fig_3d, slice_widget, fig_slice, download,
                   raised, rng, prev_fig_3d>>

\* mesh_obj = load_stl_file(uploaded_file)
LoadStlFile ==
    /\ pc = "load"
    /\ \E outcome \in LoadOutcomes, m \in LoadedMeshes :
          LET r == LoadStlFileResult(outcome, m) IN
          /\ tmp_file' = r.tmp
          /\ mesh_obj' = r.mesh
          /\ messages' = messages \o r.msgs
    /\ pc' = "loaded"
    /\ UNCHANGED <<uploaded_file, resolution, voxel_grid, vox_calls, info_panel,
                   fig_3d, slice_widget, fig_slice, download, raised, rng, prev_fig_3d>>

\* mesh_obj is None: nothing below `if mesh_obj is not None` runs
NoMesh ==
    /\ pc = "loaded"
    /\ ~MeshLoaded
    /\ pc' = "done"
    /\ UNCHANGED <<uploaded_file, tmp_file, mesh_obj, resolution, voxel_grid,
                   vox_calls, messages, info_panel, fig_3d, slice_widget,
                   fig_slice, download, raised, rng, prev_fig_3d>>

\* the resolution slider and voxel_grid = voxelize_mesh(mesh_obj, resolution)
VoxelizeMesh ==
    /\ pc = "loaded"
    /\ MeshLoaded
    /\ \E res \in Resolutions, lib \in {LibRaises} \cup Matrices :
          LET r == VoxelizeMeshResult(mesh_obj, res, lib) IN
          /\ resolution' = res
          /\ voxel_grid' = r.grid
          /\ messages' = messages \o r.msgs
    /\ vox_calls' = vox_calls + 1
    /\ pc' = "voxelized"
    /\ UNCHANGED <<uploaded_file, tmp_file, mesh_obj, info_panel, fig_3d,
                   slice_widget, fig_slice, download, raised, rng, prev_fig_3d>>

\* voxel_grid is None: nothing below `if voxel_grid is not None` runs
NoGrid ==
    /\ pc = "voxelized"
    /\ ~GridComputed
    /\ pc' = "done"
    /\ UNCHANGED <<uploaded_file, tmp_file, mesh_obj, resolution, voxel_grid,
                   vox_calls, messages, info_panel, fig_3d, slice_widget,
                   fig_slice, download, raised, rng, prev_fig_3d>>

\* display_mesh_info(mesh_obj, voxel_grid)
DisplayMeshInfo ==
    /\ pc = "voxelized"
    /\ GridComputed
    /\ info_panel' = DisplayMeshInfoResult(voxel_grid)
    /\ pc' = "info"
    /\ UNCHANGED <<uploaded_file, tmp_file, mesh_obj, resolution, voxel_grid,
                   vox_calls, messages, fig_3d, slice_widget, fig_slice,
                   download, raised, rng, prev_fig_3d>>

\* the sidebar selections and fig_3d = create_voxel_visualization(...)
VoxelVisualization ==
    /\ pc = "info"
    /\ \E st \in Styles, color_by \in ColorByOptions :
          LET r == CreateVoxelVisualization(voxel_grid, st.colormap, color_by,
                                            st.marker_size, st.opacity, rng) IN
          /\ fig_3d' = r.fig
          /\ messages' = messages \o r.msgs
          /\ rng' = r.state
    /\ pc' = "viz"
    /\ UNCHANGED <<uploaded_file, tmp_file, mesh_obj, resolution, voxel_grid,
                   vox_calls, info_panel, slice_widget, fig_slice, download,
                   raised, prev_fig_3d>>

\* slice axis selectbox, slice index slider, slice colormap and
\* fig_slice = create_slice_visualization(...)
SliceVisualization ==
    /\ pc = "viz"
    /\ \E slice_axis \in {"x", "y", "z"} :
          LET max_slice == MaxSlice(voxel_grid, slice_axis)
              default == SliderDefault(max_slice)
          IN  IF ~SliderAccepts(0, max_slice, default)
              THEN /\ raised' = "StreamlitAPIException"
                   /\ pc' = "crashed"
                   /\ UNCHANGED <<slice_widget, fig_slice>>
              ELSE \E slice_index \in 0 .. max_slice, slice_colormap \in Colormaps :
                     LET fig == CreateSliceVisualization(
                                    voxel_grid, slice_axis, Index(slice_index),
                                    slice_colormap)
                     IN  /\ slice_widget' = [tag |-> "Slider", axis |-> slice_axis,
                                             min |-> 0, max |-> max_slice,
                                             default |-> default,
                                             value |-> slice_index]
                         /\ IF fig.tag = "IndexError"
                            THEN /\ raised' = "IndexError"
                                 /\ pc' = "crashed"
                                 /\ UNCHANGED fig_slice
                            ELSE /\ fig_slice' = fig
                                 /\ pc' = "slice"
                                 /\ UNCHANGED raised
    /\ UNCHANGED <<uploaded_file, tmp_file, mesh_obj, resolution, voxel_grid,
                   vox_calls, messages, info_panel, fig_3d, download, rng, prev_fig_3d>>

\* the uint8 cast written back into the grid
ExportOptions_InPlace ==
    /\ pc = "slice"
    /\ \E clicked \in {"none", "npy", "csv"} :
          /\ download' = CASE clicked = "npy" -> ExportNpy(voxel_grid)
                           [] clicked = "csv" -> ExportCsv(voxel_grid)
                           [] OTHER -> None
          /\ voxel_grid' = IF clicked = "npy"
                           THEN [voxel_grid EXCEPT !.matrix = AsUint8(voxel_grid.matrix)]
                           ELSE voxel_grid
    /\ pc' = "done"
    /\ UNCHANGED <<uploaded_file, tmp_file, mesh_obj, resolution,
                   vox_calls, messages, info_panel, fig_3d, slice_widget,
                   fig_slice, raised, rng, prev_fig_3d>>

\* the two export buttons; st.button is True for at most one of them in a run
ExportOptions ==
    /\ pc = "slice"
    /\ \E clicked \in {"none", "npy", "csv"} :
          download' = CASE clicked = "npy" -> ExportNpy(voxel_grid)
                        [] clicked = "csv" -> ExportCsv(voxel_grid)
                        [] OTHER -> None
    /\ pc' = "done"
    /\ UNCHANGED <<uploaded_file, tmp_file, mesh_obj, resolution, voxel_grid,
                   vox_calls, messages, info_panel, fig_3d, slice_widget,
                   fig_slice, raised, rng, prev_fig_3d>>

\* the next interaction runs the script again from the top; only the
\* process-wide generator keeps its state
Rerun ==
    /\ pc \in {"done", "crashed"}
    /\ pc' = "start"
    /\ uploaded_file' = FALSE
    /\ tmp_file' = "none"
    /\ mesh_obj' = None
    /\ resolution' = 0
    /\ voxel_grid' = None
    /\ vox_calls' = 0
    /\ messages' = <<>>
    /\ info_panel' = None
    /\ fig_3d' = None
    /\ slice_widget' = None
    /\ fig_slice' = None
    /\ download' = None
    /\ raised' = "none"
    /\ UNCHANGED <<rng, prev_fig_3d>>

Next ==
    \/ PageHeader
    \/ LoadStlFile
    \/ NoMesh
    \/ VoxelizeMesh
    \/ NoGrid
    \/ DisplayMeshInfo
    \/ VoxelVisualization
    \/ SliceVisualization
    \/ ExportOptions
    \/ Rerun

Spec == Init /\ [][Next]_vars

----------------------------------------------------------------------------
(* Render sequences: create_voxel_visualization called again and again on  *)
(* one grid, as successive script runs do, with other draws from the       *)
(* process-wide generator in between.                                      *)

RenderGrids ==
    {VoxelizeMeshResult(Mesh(<<0, 0, 0>>, <<10, 10, 10>>), ResDefault, m).grid :
        m \in Matrices}

InitRender ==
    /\ pc = "info"
    /\ uploaded_file = TRUE
    /\ tmp_file = "unlinked"
    /\ mesh_obj = Mesh(<<0, 0, 0>>, <<10, 10, 10>>)
    /\ resolution = ResDefault
    /\ voxel_grid \in RenderGrids
    /\ vox_calls = 1
    /\ messages = <<>>
    /\ info_panel = DisplayMeshInfoResult(voxel_grid)
    /\ fig_3d = None
    /\ slice_widget = None
    /\ fig_slice = None
    /\ download = None
    /\ raised = "none"
    /\ rng \in 0 .. RngMod - 1
    /\ prev_fig_3d = None

\* one more call of create_voxel_visualization on the same grid
Redraw ==
    /\ \E st \in Styles, color_by \in ColorByOptions :
          LET r == CreateVoxelVisualization(voxel_grid, st.colormap, color_by,
                                            st.marker_size, st.opacity, rng) IN
          /\ fig_3d' = r.fig
          /\ messages' = r.msgs
          /\ rng' = r.state
    /\ prev_fig_3d' = fig_3d
    /\ UNCHANGED <<pc, uploaded_file, tmp_file, mesh_obj, resolution, voxel_grid,
                   vox_calls, info_panel, slice_widget, fig_slice, download,
                   raised>>

\* any other code of the process draws from the generator
OtherRandomUse ==
    /\ rng' = NpRandomNext(rng)
    /\ UNCHANGED <<pc, uploaded_file, tmp_file, mesh_obj, resolution, voxel_grid,
                   vox_calls, messages, info_panel, fig_3d, slice_widget,
                   fig_slice, download, raised, prev_fig_3d>>

NextRender == Redraw \/ OtherRandomUse

SpecRender == InitRender /\ [][NextRender]_vars

----------------------------------------------------------------------------
(* Properties.                                                             *)

IsError(m) == m.level = "error"
IsWarning(m) == m.level = "warning"
ErrorCount == Len(SelectSeq(messages, IsError))
IsNoVoxels(m) == m = StWarning("No voxels found in the mesh")
NoVoxelsCount == Len(SelectSeq(messages, IsNoVoxels))

AfterLoad == {"loaded", "voxelized", "info", "viz", "slice", "done", "crashed"}
AfterVoxelize == {"voxelized", "info", "viz", "slice", "done", "crashed"}

\* load_stl_file was called in this run and returned None
LoadFailed == pc \in AfterLoad /\ uploaded_file /\ mesh_obj = None
\* voxelize_mesh was called in this run and returned None
VoxelizeFailed == pc \in AfterVoxelize /\ vox_calls = 1 /\ voxel_grid = None

NoOutputs ==
    /\ info_panel = None
    /\ fig_3d = None
    /\ slice_widget = None
    /\ fig_slice = None
    /\ download = None

TrueCells(matrix) == {c \in Idx(matrix.shape) : matrix.data[c]}

Abs(v) == IF v < 0 THEN -v ELSE v

\* the largest extent of the bounding box, stated without MaxDimension
LargestExtent(bounds) ==
    CHOOSE e \in {bounds.hi[i] - bounds.lo[i] : i \in 1 .. 3} :
        \A i \in 1 .. 3 : bounds.hi[i] - bounds.lo[i] <= e

\* C1: after load_stl_file has returned, on every path, the temp file that
\* call created no longer exists.
C1_TempFileReleased ==
    pc \in AfterLoad => tmp_file # "exists"

\* C2: a run follows file -> mesh -> grid -> visuals/exports; a failed load
\* means voxelize_mesh is never called, nothing is rendered and exactly one
\* error is shown; a failed voxelization means nothing is rendered; any
\* panel, figure or export implies that load and voxelization succeeded
\* earlier in the same run.
C2_ShortCircuit ==
    /\ LoadFailed =>
          (vox_calls = 0 /\ voxel_grid = None /\ NoOutputs /\ ErrorCount = 1)
    /\ VoxelizeFailed => NoOutputs
    /\ vox_calls = 1 => (uploaded_file /\ mesh_obj # None)
    /\ voxel_grid # None => (mesh_obj # None /\ uploaded_file /\ vox_calls = 1)
    /\ ~NoOutputs =>
          (mesh_obj # None /\ voxel_grid # None /\ vox_calls = 1 /\ uploaded_file)
    /\ (fig_3d # None \/ slice_widget # None) => info_panel # None
    /\ fig_slice # None => (slice_widget # None /\ pc \in {"slice", "done"})
    /\ download # None => (fig_slice # None /\ pc = "done")

C2_LoadFailedRun ==
    /\ pc = "done"
    /\ uploaded_file
    /\ mesh_obj = None
    /\ ErrorCount = 1
    /\ NoOutputs

C4_PitchExact ==
    (pc \in AfterVoxelize /\ voxel_grid # None
                          /\ LargestExtent(mesh_obj.bounds) > 0) =>
       LET E == LargestExtent(mesh_obj.bounds)
           pitch == voxel_grid._pitch
       IN  /\ voxel_grid.pitch = pitch
           /\ FMulInt(pitch, resolution) = FOfInt(E)
           /\ FIntDiv(E, pitch) = FOfInt(resolution)

\* C4 as amended: for E > 0, pitch is the float nearest to E / R with E the
\* largest extent (off by at most half a unit in the last place, so pitch * R
\* is E within a relative error of 2^-MantBits); the pitch handed to the
\* library is the one stored as _pitch; R = 50 on extents (10,10,10) gives
\* the float 0.2.
C4_PitchRounded ==
    (pc \in AfterVoxelize /\ voxel_grid # None
                          /\ LargestExtent(mesh_obj.bounds) > 0) =>
       LET E == LargestExtent(mesh_obj.bounds)
           R == resolution
           pitch == voxel_grid._pitch
           err == Abs(R * FNumer(pitch) - E * FDenom(pitch))
       IN  /\ R \in ResMin .. ResMax
           /\ voxel_grid.pitch = pitch
           /\ pitch.kind = "num"
           /\ Pow2(MantBits - 1) <= pitch.m /\ pitch.m < Pow2(MantBits)
           /\ 2 * err <= R * Shl(pitch.e)
           /\ Pow2(MantBits) * err <= R * FNumer(pitch)
           /\ (E = 10 /\ R = 50) => pitch = FRound(2, 10)

C4_RoundedPitch ==
    /\ pc = "voxelized"
    /\ voxel_grid # None
    /\ LargestExtent(mesh_obj.bounds) = 7
    /\ resolution = 50
    /\ FMulInt(voxel_grid._pitch, resolution) # FOfInt(7)

Others(a) == IF a = 1 THEN <<2, 3>> ELSE IF a = 2 THEN <<1, 3>> ELSE <<1, 2>>

\* C6: the slice along axis A at index I has the grid's shape with dimension
\* A removed, and each entry is the grid cell at the same remaining
\* coordinates with coordinate A fixed to I.
C6_SliceExtraction ==
    fig_slice # None =>
       LET matrix == voxel_grid.matrix
           a == AxisNo(slice_widget.axis)
           I == slice_widget.value
           o == Others(a)
       IN  /\ fig_slice.axis = slice_widget.axis
           /\ fig_slice.index = I
           /\ fig_slice.data.shape = <<matrix.shape[o[1]], matrix.shape[o[2]]>>
           /\ DOMAIN fig_slice.data.data =
                 (0 .. matrix.shape[o[1]] - 1) \X (0 .. matrix.shape[o[2]] - 1)
           /\ \A c \in Idx(matrix.shape) :
                 c[a] = I => fig_slice.data.data[<<c[o[1]], c[o[2]]>>] = matrix.data[c]

C6_SecondSlice ==
    /\ fig_slice # None
    /\ slice_widget.axis = "x"
    /\ slice_widget.value = 1
    /\ voxel_grid.matrix.shape = <<2, 1, 2>>
    /\ voxel_grid.matrix.data[<<1, 0, 1>>]
    /\ ~voxel_grid.matrix.data[<<0, 0, 1>>]

\* C7: the coordinate export has the X,Y,Z header and then one row per True
\* cell: as many rows as True cells, every True cell present, none twice;
\* it is built from the grid of the run's single voxelize_mesh call.
C7_CsvRows ==
    (download # None /\ download.kind = "csv") =>
       LET lines == download.data
           cells == TrueCells(voxel_grid.matrix)
           rows == {lines[t] : t \in 2 .. Len(lines)}
       IN  /\ lines[1] = "X,Y,Z"
           /\ Len(lines) - 1 = Cardinality(cells)
           /\ rows = {CsvLine(c) : c \in cells}
           /\ Cardinality(rows) = Len(lines) - 1
           /\ \A c \in cells, d \in cells : CsvLine(c) = CsvLine(d) => c = d
           /\ vox_calls = 1

C7_TwoRowExport ==
    /\ download # None
    /\ download.kind = "csv"
    /\ download.data = <<"X,Y,Z", "0,0,1", "0,1,0">>

IsRandom(fig) == fig # None /\ fig.color_by = "Random"

\* C8: two renders of the same grid in mode "Random" carry the same colour
\* scalars, whatever the generator was used for in between.
C8_RandomDeterministic ==
    (IsRandom(prev_fig_3d) /\ IsRandom(fig_3d)) => prev_fig_3d.color = fig_3d.color

C8_TwoRandomRenders ==
    /\ IsRandom(prev_fig_3d)
    /\ IsRandom(fig_3d)
    /\ Len(fig_3d.color) >= 2
    /\ rng # NpRandomRand(NpRandomSeed(Seed), Len(fig_3d.color)).state

\* C9: from the moment voxelize_mesh has returned a grid to the end of the
\* run, no step (info panel, 3D figure, slice figure, exports) changes the
\* grid's matrix, shape or stored pitch.
C9_GridUnchanged ==
    [][(pc \in {"voxelized", "info", "viz", "slice"} /\ voxel_grid # None)
          => voxel_grid' = voxel_grid]_vars

C9_AllRendered ==
    /\ pc = "done"
    /\ info_panel # None
    /\ fig_3d # None
    /\ fig_slice # None
    /\ download # None
    /\ download.kind = "npy"

\* the index create_slice_visualization uses when slice_index is omitted
OmittedIndex ==
    CreateSliceVisualization(voxel_grid, slice_widget.axis, None, "Viridis")

\* C10 as claimed: on an axis of n >= 1 cells the slider's index is in
\* 0..n-1, and the slider's default is the index create_slice_visualization
\* takes when slice_index is omitted (n // 2).
C10_DefaultsAgree ==
    slice_widget # None =>
       LET n == voxel_grid.matrix.shape[AxisNo(slice_widget.axis)] IN
       n >= 1 =>
          /\ slice_widget.value \in 0 .. n - 1
          /\ slice_widget.default \in 0 .. n - 1
          /\ OmittedIndex.tag = "Figure"
          /\ OmittedIndex.index = n \div 2
          /\ slice_widget.default = OmittedIndex.index

\* C10 as amended: on an axis of n >= 1 cells the slider runs over 0..n-1,
\* its index and its default (n-1) // 2 are valid indices, and
\* create_slice_visualization without slice_index takes n // 2, also valid;
\* the two defaults are equal exactly when n is odd, and otherwise the
\* slider's is one less.
C10_IndexValid ==
    slice_widget # None =>
       LET n == voxel_grid.matrix.shape[AxisNo(slice_widget.axis)] IN
       /\ n >= 1
       /\ slice_widget.min = 0 /\ slice_widget.max = n - 1
       /\ slice_widget.value \in 0 .. n - 1
       /\ slice_widget.default = (n - 1) \div 2
       /\ slice_widget.default \in 0 .. n - 1
       /\ OmittedIndex.tag = "Figure"
       /\ OmittedIndex.index = n \div 2
       /\ OmittedIndex.index \in 0 .. n - 1
       /\ (slice_widget.default = OmittedIndex.index) <=> (n % 2 = 1)
       /\ (n % 2 = 0) => slice_widget.default = OmittedIndex.index - 1

C10_EvenAxis ==
    /\ slice_widget # None
    /\ fig_slice # None
    /\ voxel_grid.matrix.shape[AxisNo(slice_widget.axis)] = 2
    /\ NpSum(voxel_grid.matrix) >= 1
    /\ slice_widget.default = 0
    /\ OmittedIndex.index = 1

====
